---------------------------- MODULE Spec2Model ----------------------------
(***************************************************************************)
(* A model of the release tool `version` (src/src/main.rs): tag ranking    *)
(* (semver), the bump decision of main, bump, make_changelog and the       *)
(* sequence of effects of one run of main.                                 *)
(*                                                                         *)
(* Strings are TLA+ strings; a character is a string of length 1.  The     *)
(* model covers ASCII text only.                                           *)
(***************************************************************************)
EXTENDS Naturals, Sequences, FiniteSets, TLC

VARIABLES
    \* the repository and the invocation, as the run finds them
    inRepo,         \* Repository::discover succeeds
    hasHead,        \* HEAD resolves to a commit
    hasOrigin,      \* a remote named origin exists
    argForce,       \* --force / -f was given
    argPush,        \* --push / -p was given
    repoTags,       \* the tag names of the repository (a set)
    walk,           \* the commits (id, summary) the revwalk yields, in walk order
    \* main's locals
    pc,             \* the position in main
    all_tags,       \* main.rs:58
    commits,        \* main.rs:93
    changelog,      \* main.rs:101
    bumps,          \* main.rs:103
    new_tag,        \* main.rs:154
    \* the effects of the run
    prepended,      \* the texts prepended to CHANGELOG.md, in order
    manifests,      \* the manifest kinds whose file was rewritten
    releaseCommits, \* the messages of the commits created
    tagCalls,       \* the names handed to tag(), in order
    createdTags,    \* the tags created by the run
    pushed,         \* the push was done
    exitCode,       \* <<the process exit code>>; <<>> while main runs
    abortedBy       \* why the run aborted, "" while it has not

vars == <<inRepo, hasHead, hasOrigin, argForce, argPush, repoTags, walk,
          pc, all_tags, commits, changelog, bumps, new_tag,
          prepended, manifests, releaseCommits, tagCalls, createdTags,
          pushed, exitCode, abortedBy>>

envVars == <<inRepo, hasHead, hasOrigin, argForce, argPush, repoTags, walk>>
effectVars == <<prepended, manifests, releaseCommits, tagCalls, createdTags, pushed>>

(***************************************************************************)
(* Bounds of the model.                                                    *)
(***************************************************************************)
MaxVer == 3          \* version components of the bump inputs: 0..MaxVer (and 99)
MaxTags == 4         \* tags in a tag set given to the ranking
MaxSelectCommits == 3  \* commits in a walk given to the bump decision
MaxRenderCommits == 3  \* commits in a walk given to the changelog
MaxRunTags == 2      \* tags in the repository of a whole run
MaxRunCommits == 1   \* commits in the walk of a whole run

(***************************************************************************)
(* Text primitives.                                                        *)
(***************************************************************************)
Ch(s, i) == SubSeq(s, i, i)

CharsOf(s) == {Ch(s, i) : i \in 1..Len(s)}

\* str::starts_with
starts_with(s, prefix) ==
    /\ Len(s) >= Len(prefix)
    /\ SubSeq(s, 1, Len(prefix)) = prefix

DigitChars == "0123456789"

Digits == CharsOf(DigitChars)

IsDigit(c) == c \in Digits

DigitVal(c) == CHOOSE d \in 0..9 : Ch(DigitChars, d + 1) = c

\* the Display of a usize, as format!("{}") writes it
RECURSIVE to_string(_)
to_string(n) ==
    IF n < 10 THEN Ch(DigitChars, n + 1)
    ELSE to_string(n \div 10) \o Ch(DigitChars, (n % 10) + 1)

\* str::parse::<usize> of a text of decimal digits
RECURSIVE parse_usize(_)
parse_usize(s) ==
    IF Len(s) = 0 THEN 0
    ELSE 10 * parse_usize(SubSeq(s, 1, Len(s) - 1)) + DigitVal(Ch(s, Len(s)))

\* the ASCII characters of the model in byte order (without the quote, the
\* backslash and the backtick), for the order of String
AsciiTable == " !#$%&'()*+,-./0123456789:;<=>?@ABCDEFGHIJKLMNOPQRSTUVWXYZ[]^_abcdefghijklmnopqrstuvwxyz{|}~"

ByteTable ==
    [c \in {Ch(AsciiTable, i) : i \in 1..Len(AsciiTable)} |->
        CHOOSE i \in 1..Len(AsciiTable) : Ch(AsciiTable, i) = c]

Byte(c) == ByteTable[c]

\* Ord for String: lexicographic by byte
RECURSIVE StrLess(_, _)
StrLess(a, b) ==
    IF Len(b) = 0 THEN FALSE
    ELSE IF Len(a) = 0 THEN TRUE
    ELSE IF Ch(a, 1) # Ch(b, 1) THEN Byte(Ch(a, 1)) < Byte(Ch(b, 1))
    ELSE StrLess(SubSeq(a, 2, Len(a)), SubSeq(b, 2, Len(b)))

\* Ord for (usize, usize, usize)
VerLess(a, b) ==
    \/ a[1] < b[1]
    \/ a[1] = b[1] /\ a[2] < b[2]
    \/ a[1] = b[1] /\ a[2] = b[2] /\ a[3] < b[3]

(***************************************************************************)
(* Constants of main.rs.                                                   *)
(***************************************************************************)
PATCH_BUMP == 2
MINOR_BUMP == 4
MAJOR_BUMP == 8

\* x & mask == mask, for a mask of one bit
HasBit(x, mask) == (x \div mask) % 2 = 1

\* x | mask, for a mask of one bit
SetBit(x, mask) == IF HasBit(x, mask) THEN x ELSE x + mask

(***************************************************************************)
(* bump (main.rs:644)                                                      *)
(***************************************************************************)
bump_no_reset(version, major, minor, patch) ==
    IF HasBit(version, MAJOR_BUMP)
    THEN "v" \o to_string(major + 1) \o "." \o to_string(minor) \o "." \o to_string(patch)
    ELSE IF HasBit(version, MINOR_BUMP)
    THEN "v" \o to_string(major) \o "." \o to_string(minor + 1) \o "." \o to_string(patch)
    ELSE IF HasBit(version, PATCH_BUMP)
    THEN "v" \o to_string(major) \o "." \o to_string(minor) \o "." \o to_string(patch + 1)
    ELSE ""

bump(version, major, minor, patch) ==
    IF HasBit(version, MAJOR_BUMP)
    THEN "v" \o to_string(major + 1) \o "." \o to_string(0) \o "." \o to_string(0)
    ELSE IF HasBit(version, MINOR_BUMP)
    THEN "v" \o to_string(major) \o "." \o to_string(minor + 1) \o "." \o to_string(0)
    ELSE IF HasBit(version, PATCH_BUMP)
    THEN "v" \o to_string(major) \o "." \o to_string(minor) \o "." \o to_string(patch + 1)
    ELSE ""

(***************************************************************************)
(* SEMVER_RX (main.rs:16) and Regex::captures on it: the leftmost match,    *)
(* anywhere in the text, of three components separated by dots, each a     *)
(* "0" or a digit 1-9 followed by digits.  The pattern has no anchors.     *)
(***************************************************************************)
\* the first position from i on that holds no digit
RECURSIVE DigitsEnd(_, _)
DigitsEnd(s, i) ==
    IF i <= Len(s) /\ IsDigit(Ch(s, i)) THEN DigitsEnd(s, i + 1) ELSE i

\* one component at position i: the position after it, 0 when there is none.
\* The first alternative takes a "0" alone; the second is greedy.
ComponentEnd(s, i) ==
    IF i > Len(s) THEN 0
    ELSE IF Ch(s, i) = "0" THEN i + 1
    ELSE IF IsDigit(Ch(s, i)) THEN DigitsEnd(s, i + 1)
    ELSE 0

\* the match that starts at position i: <<i, e1, e2, e3>>, the ends of the
\* three components, or <<>> when the pattern does not match there
SemverAt(s, i) ==
    LET e1 == ComponentEnd(s, i)
        e2 == IF e1 # 0 /\ e1 <= Len(s) /\ Ch(s, e1) = "."
              THEN ComponentEnd(s, e1 + 1) ELSE 0
        e3 == IF e2 # 0 /\ e2 <= Len(s) /\ Ch(s, e2) = "."
              THEN ComponentEnd(s, e2 + 1) ELSE 0
    IN IF e3 # 0 THEN <<i, e1, e2, e3>> ELSE <<>>

\* the leftmost match that starts at position i or after it, <<>> when
\* there is none
RECURSIVE SemverFrom(_, _)
SemverFrom(s, i) ==
    IF i > Len(s) THEN <<>>
    ELSE LET m == SemverAt(s, i)
         IN IF m # <<>> THEN m ELSE SemverFrom(s, i + 1)

SEMVER_RX_is_match(s) == SemverFrom(s, 1) # <<>>

\* the captures major, minor, patch of the leftmost match
SEMVER_RX_captures(s) ==
    LET m == SemverFrom(s, 1)
    IN [major |-> SubSeq(s, m[1], m[2] - 1),
        minor |-> SubSeq(s, m[2] + 1, m[3] - 1),
        patch |-> SubSeq(s, m[3] + 1, m[4] - 1)]

(***************************************************************************)
(* tags (main.rs:498): the tag names, in the order in which the repository *)
(* enumerates them, are inserted into a BTreeSet, which iterates in        *)
(* ascending String order.                                                 *)
(***************************************************************************)
\* repo.tag_names (main.rs:500): the orders in which the repository may
\* enumerate the tag names `names`
RECURSIVE tag_names(_)
tag_names(names) ==
    IF names = {} THEN {<<>>}
    ELSE UNION {{<<t>> \o rest : rest \in tag_names(names \ {t})} : t \in names}

\* BTreeSet::insert (main.rs:501) on the set in its iteration order
RECURSIVE insert(_, _)
insert(set, t) ==
    IF set = <<>> THEN <<t>>
    ELSE IF Head(set) = t THEN set
    ELSE IF StrLess(t, Head(set)) THEN <<t>> \o set
    ELSE <<Head(set)>> \o insert(Tail(set), t)

\* the names collected in a Vec, in the order of the enumeration
tags_in_vec(enumerated) == enumerated

RECURSIVE tags(_)
tags(enumerated) ==
    IF enumerated = <<>> THEN <<>>
    ELSE insert(tags(SubSeq(enumerated, 1, Len(enumerated) - 1)),
                enumerated[Len(enumerated)])

(***************************************************************************)
(* semver (main.rs:506)                                                    *)
(***************************************************************************)
\* the loop of main.rs:510-521
RECURSIVE semver_collect(_)
semver_collect(tagSeq) ==
    IF tagSeq = <<>> THEN <<>>
    ELSE LET tag == Head(tagSeq)
             rest == semver_collect(Tail(tagSeq))
         IN IF SEMVER_RX_is_match(tag)
            THEN LET caps == SEMVER_RX_captures(tag)
                 IN <<[tag |-> tag,
                       ver |-> <<parse_usize(caps.major),
                                 parse_usize(caps.minor),
                                 parse_usize(caps.patch)>>]>> \o rest
            ELSE rest

\* Vec::sort_by(|a, b| b.1.cmp(&a.1)): a stable sort, greatest version first.
\* An element goes after the elements that are not less than it.
RECURSIVE InsertDesc(_, _)
InsertDesc(sorted, e) ==
    IF sorted = <<>> THEN <<e>>
    ELSE IF VerLess(Head(sorted).ver, e.ver) THEN <<e>> \o sorted
    ELSE <<Head(sorted)>> \o InsertDesc(Tail(sorted), e)

RECURSIVE sort_by_version_desc(_)
sort_by_version_desc(v) ==
    IF v = <<>> THEN <<>>
    ELSE InsertDesc(sort_by_version_desc(SubSeq(v, 1, Len(v) - 1)), v[Len(v)])

truncate(v, n) == IF Len(v) > n THEN SubSeq(v, 1, n) ELSE v

semver_ascending(tagSeq) ==
    LET sorted == sort_by_version_desc(semver_collect(tagSeq))
    IN truncate([i \in 1..Len(sorted) |-> sorted[Len(sorted) + 1 - i]], 2)

semver(tagSeq) == truncate(sort_by_version_desc(semver_collect(tagSeq)), 2)

(***************************************************************************)
(* The bump decision of main (main.rs:132-151): the first commit of the    *)
(* walk whose summary starts with one of the prefixes sets one bit and     *)
(* ends the loop.                                                          *)
(***************************************************************************)
\* a loop without the breaks: every commit sets its bit
RECURSIVE bump_loop_no_break(_, _)
bump_loop_no_break(cs, b) ==
    IF cs = <<>> THEN b
    ELSE LET commit == Head(cs)[2]
             b1 == IF starts_with(commit, "fix!") \/ starts_with(commit, "feat!")
                   THEN SetBit(b, MAJOR_BUMP)
                   ELSE IF starts_with(commit, "feat")
                   THEN SetBit(b, MINOR_BUMP)
                   ELSE IF \/ starts_with(commit, "chore")
                           \/ starts_with(commit, "fix")
                           \/ starts_with(commit, "docs")
                           \/ starts_with(commit, "refactor")
                   THEN SetBit(b, PATCH_BUMP)
                   ELSE b
         IN bump_loop_no_break(Tail(cs), b1)

\* a loop that leaves docs out of the patch prefixes
RECURSIVE bump_loop_no_docs(_, _)
bump_loop_no_docs(cs, b) ==
    IF cs = <<>> THEN b
    ELSE LET commit == Head(cs)[2]
         IN IF starts_with(commit, "fix!") \/ starts_with(commit, "feat!")
            THEN SetBit(b, MAJOR_BUMP)
            ELSE IF starts_with(commit, "feat")
            THEN SetBit(b, MINOR_BUMP)
            ELSE IF \/ starts_with(commit, "chore")
                    \/ starts_with(commit, "fix")
                    \/ starts_with(commit, "refactor")
            THEN SetBit(b, PATCH_BUMP)
            ELSE bump_loop_no_docs(Tail(cs), b)

\* a loop that tests feat and fix before feat! and fix!
RECURSIVE bump_loop_bang_last(_, _)
bump_loop_bang_last(cs, b) ==
    IF cs = <<>> THEN b
    ELSE LET commit == Head(cs)[2]
         IN IF starts_with(commit, "feat")
            THEN SetBit(b, MINOR_BUMP)
            ELSE IF \/ starts_with(commit, "chore")
                    \/ starts_with(commit, "fix")
                    \/ starts_with(commit, "docs")
                    \/ starts_with(commit, "refactor")
            THEN SetBit(b, PATCH_BUMP)
            ELSE IF starts_with(commit, "fix!") \/ starts_with(commit, "feat!")
            THEN SetBit(b, MAJOR_BUMP)
            ELSE bump_loop_bang_last(Tail(cs), b)

RECURSIVE bump_loop(_, _)
bump_loop(cs, b) ==
    IF cs = <<>> THEN b
    ELSE LET commit == Head(cs)[2]
         IN IF starts_with(commit, "fix!") \/ starts_with(commit, "feat!")
            THEN SetBit(b, MAJOR_BUMP)
            ELSE IF starts_with(commit, "feat")
            THEN SetBit(b, MINOR_BUMP)
            ELSE IF \/ starts_with(commit, "chore")
                    \/ starts_with(commit, "fix")
                    \/ starts_with(commit, "docs")
                    \/ starts_with(commit, "refactor")
            THEN SetBit(b, PATCH_BUMP)
            ELSE bump_loop(Tail(cs), b)

(***************************************************************************)
(* sort_commits (main.rs:528): a stable sort by the position of the first  *)
(* prefix of `order` the summary starts with.                              *)
(***************************************************************************)
order == <<"feat!", "feat", "fix!", "fix", "refactor", "docs", "chore">>

\* order.iter().position(..).unwrap_or(order.len()), counted from 0
prefix_position(a) ==
    LET hits == {i \in 1..Len(order) : starts_with(a, order[i])}
    IN IF hits = {} THEN Len(order)
       ELSE (CHOOSE i \in hits : \A j \in hits : i <= j) - 1

\* an element goes after the elements whose key is not greater than its own
RECURSIVE InsertByPrefix(_, _)
InsertByPrefix(sorted, e) ==
    IF sorted = <<>> THEN <<e>>
    ELSE IF prefix_position(e[2]) < prefix_position(Head(sorted)[2])
    THEN <<e>> \o sorted
    ELSE <<Head(sorted)>> \o InsertByPrefix(Tail(sorted), e)

\* a sort that puts an element before the elements of its own key
RECURSIVE InsertByPrefixUnstable(_, _)
InsertByPrefixUnstable(sorted, e) ==
    IF sorted = <<>> THEN <<e>>
    ELSE IF prefix_position(e[2]) <= prefix_position(Head(sorted)[2])
    THEN <<e>> \o sorted
    ELSE <<Head(sorted)>> \o InsertByPrefixUnstable(Tail(sorted), e)

RECURSIVE sort_commits_unstable(_)
sort_commits_unstable(strings) ==
    IF strings = <<>> THEN <<>>
    ELSE InsertByPrefixUnstable(
             sort_commits_unstable(SubSeq(strings, 1, Len(strings) - 1)),
             strings[Len(strings)])

\* the commits left in the order of the walk
sort_commits_skipped(strings) == strings

RECURSIVE sort_commits(_)
sort_commits(strings) ==
    IF strings = <<>> THEN <<>>
    ELSE InsertByPrefix(sort_commits(SubSeq(strings, 1, Len(strings) - 1)),
                        strings[Len(strings)])

(***************************************************************************)
(* CONVENTIONAL_COMMIT_RX (main.rs:546) and Regex::captures on it.  The    *)
(* pattern is anchored at both ends: a type, an optional "!", an optional  *)
(* note in parentheses, a colon, and a subject of one character or more.   *)
(***************************************************************************)
\* the alternation of the group `type`, in the order of the pattern
RxTypes == <<"fix", "feat", "docs", "refactor", "chore", "revert", "docs", "chore">>

Letters == CharsOf("abcdefghijklmnopqrstuvwxyzABCDEFGHIJKLMNOPQRSTUVWXYZ")

\* the ASCII characters of the Unicode category P
Punctuation == CharsOf("!#%&'()*,-./:;?@[]_{}")

\* \s, and what str::trim removes
WhiteSpace == {" ", "\t", "\n", "\r", "\f"}

\* the class of the note: \pP, \pN, \pL and \s
NoteChars == Punctuation \cup Digits \cup Letters \cup WhiteSpace

IsNoteChar(c) == c \in NoteChars

\* the subject: one character or more, none of them a line feed, to the end
SubjectFrom(s, i) ==
    /\ i <= Len(s)
    /\ \A k \in i..Len(s) : Ch(s, k) # "\n"

\* the positions j of a ")" that can close a note opened at position p:
\* one note character or more between them, a colon and a subject after it
NoteEnds(s, p) ==
    {j \in (p + 2)..Len(s) :
        /\ Ch(s, j) = ")"
        /\ \A k \in (p + 1)..(j - 1) : IsNoteChar(Ch(s, k))
        /\ j + 1 <= Len(s) /\ Ch(s, j + 1) = ":"
        /\ SubjectFrom(s, j + 2)}

NoCaptures == [matched |-> FALSE]

\* the rest of the pattern from position p, after the type and the "!":
\* the group of the note is greedy, so the last possible ")" closes it
CapturesFrom(s, type, p) ==
    IF p <= Len(s) /\ Ch(s, p) = "(" /\ NoteEnds(s, p) # {}
    THEN LET j == CHOOSE e \in NoteEnds(s, p) : \A f \in NoteEnds(s, p) : f <= e
         IN [matched |-> TRUE, type |-> type, hasNote |-> TRUE,
             note |-> SubSeq(s, p + 1, j - 1),
             subject |-> SubSeq(s, j + 2, Len(s))]
    ELSE IF p <= Len(s) /\ Ch(s, p) = ":" /\ SubjectFrom(s, p + 1)
    THEN [matched |-> TRUE, type |-> type, hasNote |-> FALSE, note |-> "",
          subject |-> SubSeq(s, p + 1, Len(s))]
    ELSE NoCaptures

conventional_rx_captures(s) ==
    LET alts == {i \in 1..Len(RxTypes) : starts_with(s, RxTypes[i])}
    IN IF alts = {} THEN NoCaptures
       ELSE LET type == RxTypes[CHOOSE i \in alts : \A j \in alts : i <= j]
                p == Len(type) + 1
                withBang == IF p <= Len(s) /\ Ch(s, p) = "!"
                            THEN CapturesFrom(s, type, p + 1) ELSE NoCaptures
            IN IF withBang.matched THEN withBang ELSE CapturesFrom(s, type, p)

\* str::trim
RECURSIVE trim_start(_)
trim_start(s) ==
    IF Len(s) > 0 /\ Ch(s, 1) \in WhiteSpace THEN trim_start(SubSeq(s, 2, Len(s))) ELSE s

RECURSIVE trim_end(_)
trim_end(s) ==
    IF Len(s) > 0 /\ Ch(s, Len(s)) \in WhiteSpace
    THEN trim_end(SubSeq(s, 1, Len(s) - 1)) ELSE s

trim(s) == trim_end(trim_start(s))

(***************************************************************************)
(* make_changelog (main.rs:548)                                            *)
(***************************************************************************)
type_replacements ==
    [t \in {"feat", "fix", "docs", "refactor", "chore", "revert"} |->
        CASE t = "feat" -> "Features"
          [] t = "fix" -> "Bug Fixes"
          [] t = "docs" -> "Documentation"
          [] t = "refactor" -> "Code Refactoring"
          [] t = "chore" -> "Chores"
          [] t = "revert" -> "Reverts"]

\* the entry of one commit, main.rs:588-597
entry_text(hash, caps) ==
    "- " \o (IF caps.hasNote THEN "**" \o caps.note \o ":** " ELSE "")
         \o trim(caps.subject) \o " (" \o hash \o ")" \o "\n"

\* the loop of main.rs:565-599 from the commits left, with the loop's state
RECURSIVE changelog_loop(_, _, _)
changelog_loop(cs, last_type, result) ==
    IF cs = <<>> THEN result
    ELSE LET hash == Head(cs)[1]
             caps == conventional_rx_captures(Head(cs)[2])
         IN IF ~caps.matched
            THEN changelog_loop(Tail(cs), last_type, result)
            ELSE IF caps.hasNote /\ caps.type = "chore" /\ caps.note = "release"
            THEN changelog_loop(Tail(cs), last_type, result)
            ELSE LET r1 == IF last_type # caps.type /\ last_type # ""
                           THEN result \o "\n" ELSE result
                     r2 == IF last_type # caps.type
                           THEN r1 \o "### " \o type_replacements[caps.type] \o "\n"
                           ELSE r1
                 IN changelog_loop(Tail(cs), caps.type, r2 \o entry_text(hash, caps))

\* a loop that tells a release commit only after it has written the heading
RECURSIVE changelog_loop_late_skip(_, _, _)
changelog_loop_late_skip(cs, last_type, result) ==
    IF cs = <<>> THEN result
    ELSE LET hash == Head(cs)[1]
             caps == conventional_rx_captures(Head(cs)[2])
         IN IF ~caps.matched
            THEN changelog_loop_late_skip(Tail(cs), last_type, result)
            ELSE LET r1 == IF last_type # caps.type /\ last_type # ""
                           THEN result \o "\n" ELSE result
                     r2 == IF last_type # caps.type
                           THEN r1 \o "### " \o type_replacements[caps.type] \o "\n"
                           ELSE r1
                 IN IF caps.hasNote /\ caps.type = "chore" /\ caps.note = "release"
                    THEN changelog_loop_late_skip(Tail(cs), caps.type, r2)
                    ELSE changelog_loop_late_skip(Tail(cs), caps.type,
                                                  r2 \o entry_text(hash, caps))

make_changelog_late_skip(cs) == changelog_loop_late_skip(sort_commits(cs), "", "")

make_changelog(cs) == changelog_loop(sort_commits(cs), "", "")

(***************************************************************************)
(* The collaborators of main: the repository, the files, the clock.        *)
(***************************************************************************)
\* chrono::Local::now().format("%F"): the day of the run
Today == "2024-05-01"

ManifestKinds == {"helm", "npm", "composer"}

\* git2::message_prettify on a one-line message without comment lines
message_prettify(text) == trim_end(text) \o "\n"

\* tag (main.rs:637): what the call returns.  HEAD is resolved first, then
\* the signature is read, then the tag is created without force: an empty
\* name is no reference name, a name that exists is refused.
tag(name, existing, head, signature) ==
    IF ~head THEN "NotFound"
    ELSE IF ~signature THEN "Err"
    ELSE IF name = "" \/ name \in existing THEN "Err"
    ELSE "Ok"

\* process::exit(code), and the panic of an unwrap or expect (code 101)
Exit(code, why) ==
    /\ pc' = "exit"
    /\ exitCode' = <<code>>
    /\ abortedBy' = why

Goto(next) ==
    /\ pc' = next
    /\ UNCHANGED <<exitCode, abortedBy>>

(***************************************************************************)
(* main (main.rs:40), one action for each step with an effect or an exit.  *)
(***************************************************************************)
\* main.rs:42-55
Discover ==
    /\ pc = "discover"
    /\ \E cwd_ok \in BOOLEAN :
          IF ~cwd_ok THEN Exit(1, "current_dir")
          ELSE IF ~inRepo THEN Exit(1, "not a repository")
          ELSE Goto("tags")
    /\ UNCHANGED <<envVars, effectVars, all_tags, commits, changelog, bumps, new_tag>>

\* main.rs:58-63
ReadTags ==
    /\ pc = "tags"
    /\ \E tags_ok \in BOOLEAN :
          IF tags_ok
          THEN /\ \E names \in tag_names(repoTags) : all_tags' = semver(tags(names))
               /\ Goto(IF Len(all_tags') = 0 THEN "initial_tag" ELSE "get_commits")
          ELSE /\ Exit(1, "tags")
               /\ UNCHANGED all_tags
    /\ UNCHANGED <<envVars, effectVars, commits, changelog, bumps, new_tag>>

\* main.rs:66-88
InitialTag ==
    /\ pc = "initial_tag"
    /\ tagCalls' = Append(tagCalls, "v0.0.1")
    /\ \E signature \in BOOLEAN :
          LET res == tag("v0.0.1", repoTags \cup createdTags, hasHead, signature)
          IN IF res = "Ok"
             THEN /\ createdTags' = createdTags \cup {"v0.0.1"}
                  /\ Exit(0, "")
             ELSE /\ UNCHANGED createdTags
                  /\ Exit(1, IF res = "NotFound" THEN "no HEAD" ELSE "tag")
    /\ UNCHANGED <<envVars, prepended, manifests, releaseCommits, pushed,
                   all_tags, commits, changelog, bumps, new_tag>>

\* main.rs:90-99 and get_commits_between_tags (main.rs:467): HEAD is
\* resolved, and the walk from HEAD that hides the start tag is collected
GetCommits ==
    /\ pc = "get_commits"
    /\ IF ~hasHead
       THEN /\ Exit(1, "no HEAD")
            /\ UNCHANGED commits
       ELSE \E walk_ok \in BOOLEAN :
               IF walk_ok
               THEN /\ commits' = walk
                    /\ Goto("changelog")
               ELSE /\ Exit(1, "revwalk")
                    /\ UNCHANGED commits
    /\ UNCHANGED <<envVars, effectVars, all_tags, changelog, bumps, new_tag>>

\* main.rs:101
MakeChangelog ==
    /\ pc = "changelog"
    /\ changelog' = make_changelog(commits)
    /\ Goto("check_empty")
    /\ UNCHANGED <<envVars, effectVars, all_tags, commits, bumps, new_tag>>

\* a step that reports the empty range and goes on without the flag
CheckEmptyNoExit ==
    /\ pc = "check_empty"
    /\ bumps' = IF Len(commits) = 0 /\ argForce THEN SetBit(0, PATCH_BUMP) ELSE 0
    /\ Goto("select")
    /\ UNCHANGED <<envVars, effectVars, all_tags, commits, changelog, new_tag>>

\* main.rs:103-130
CheckEmpty ==
    /\ pc = "check_empty"
    /\ IF Len(commits) = 0
       THEN IF argForce
            THEN /\ bumps' = SetBit(0, PATCH_BUMP)
                 /\ Goto("select")
            ELSE /\ bumps' = 0
                 /\ Exit(1, "no commits")
       ELSE /\ bumps' = 0
            /\ Goto("select")
    /\ UNCHANGED <<envVars, effectVars, all_tags, commits, changelog, new_tag>>

\* main.rs:132-151
SelectBump ==
    /\ pc = "select"
    /\ bumps' = bump_loop(commits, bumps)
    /\ Goto("bump")
    /\ UNCHANGED <<envVars, effectVars, all_tags, commits, changelog, new_tag>>

\* a step that bumps the last of the ranked tags
BumpFromLast ==
    /\ pc = "bump"
    /\ LET latest_tag == all_tags[Len(all_tags)]
       IN new_tag' = bump(bumps, latest_tag.ver[1], latest_tag.ver[2], latest_tag.ver[3])
    /\ Goto("prepend")
    /\ UNCHANGED <<envVars, effectVars, all_tags, commits, changelog, bumps>>

\* main.rs:153-154
Bump ==
    /\ pc = "bump"
    /\ LET latest_tag == all_tags[1]
       IN new_tag' = bump(bumps, latest_tag.ver[1], latest_tag.ver[2], latest_tag.ver[3])
    /\ Goto("prepend")
    /\ UNCHANGED <<envVars, effectVars, all_tags, commits, changelog, bumps>>

\* the text of main.rs:158-172
changelog_section ==
    (IF HasBit(bumps, PATCH_BUMP) THEN "###" ELSE "##") \o " " \o new_tag
        \o " (" \o Today \o ")\n\n"
        \o (IF changelog = "" THEN "*no notable changes*\n" ELSE changelog) \o "\n"

\* main.rs:156-176 and prepend_string_to_file (main.rs:443)
PrependChangelog ==
    /\ pc = "prepend"
    /\ \E file_ok \in BOOLEAN :
          IF file_ok
          THEN /\ prepended' = Append(prepended, changelog_section)
               /\ Goto("manifests")
          ELSE /\ UNCHANGED prepended
               /\ Exit(1, "CHANGELOG.md")
    /\ UNCHANGED <<envVars, manifests, releaseCommits, tagCalls, createdTags, pushed,
                   all_tags, commits, changelog, bumps, new_tag>>

\* main.rs:220-245 with read_config_file (main.rs:326) and
\* write_version_by_regex (main.rs:340): the files that exist and hold a
\* version line are rewritten; a config that is no JSON or a path that is no
\* regular file panics (101), a config value of another type exits (1),
\* after the files before it were rewritten
WriteManifests ==
    /\ pc = "manifests"
    /\ \E written \in SUBSET ManifestKinds, outcome \in {"ok", "panic", "exit"} :
          /\ manifests' = written
          /\ CASE outcome = "ok" -> Goto("commit")
               [] outcome = "panic" -> written # ManifestKinds /\ Exit(101, "manifest")
               [] outcome = "exit" -> written # ManifestKinds /\ Exit(1, "config")
    /\ UNCHANGED <<envVars, prepended, releaseCommits, tagCalls, createdTags, pushed,
                   all_tags, commits, changelog, bumps, new_tag>>

\* main.rs:249-254 and commit_version_changes (main.rs:187)
CommitChanges ==
    /\ pc = "commit"
    /\ \E commit_ok \in BOOLEAN :
          IF commit_ok
          THEN /\ releaseCommits' =
                      Append(releaseCommits, message_prettify("chore(release): " \o new_tag))
               /\ Goto("tag")
          ELSE /\ UNCHANGED releaseCommits
               /\ Exit(1, "commit")
    /\ UNCHANGED <<envVars, prepended, manifests, tagCalls, createdTags, pushed,
                   all_tags, commits, changelog, bumps, new_tag>>

\* a step that goes on after an error of tag
TagReleaseIgnoringErr ==
    /\ pc = "tag"
    /\ tagCalls' = Append(tagCalls, new_tag)
    /\ \E signature \in BOOLEAN :
          LET res == tag(new_tag, repoTags \cup createdTags, hasHead, signature)
          IN /\ createdTags' = IF res = "Ok" THEN createdTags \cup {new_tag} ELSE createdTags
             /\ Goto("push")
    /\ UNCHANGED <<envVars, prepended, manifests, releaseCommits, pushed,
                   all_tags, commits, changelog, bumps, new_tag>>

\* main.rs:266-283
TagRelease ==
    /\ pc = "tag"
    /\ tagCalls' = Append(tagCalls, new_tag)
    /\ \E signature \in BOOLEAN :
          LET res == tag(new_tag, repoTags \cup createdTags, hasHead, signature)
          IN IF res = "Ok"
             THEN /\ createdTags' = createdTags \cup {new_tag}
                  /\ Goto("push")
             ELSE /\ UNCHANGED createdTags
                  /\ Exit(1, "tag")
    /\ UNCHANGED <<envVars, prepended, manifests, releaseCommits, pushed,
                   all_tags, commits, changelog, bumps, new_tag>>

\* main.rs:294-317
Push ==
    /\ pc = "push"
    /\ IF argPush
       THEN IF ~hasOrigin
            THEN /\ UNCHANGED pushed
                 /\ Exit(1, "no origin")
            ELSE \E push_ok \in BOOLEAN :
                    IF push_ok
                    THEN /\ pushed' = TRUE
                         /\ Exit(0, "")
                    ELSE /\ UNCHANGED pushed
                         /\ Exit(101, "push")
       ELSE /\ UNCHANGED pushed
            /\ Exit(0, "")
    /\ UNCHANGED <<envVars, prepended, manifests, releaseCommits, tagCalls, createdTags,
                   all_tags, commits, changelog, bumps, new_tag>>

(***************************************************************************)
(* The inputs of the model.                                                *)
(***************************************************************************)
\* the sequences over S of length at most n
SeqsUpTo(S, n) == UNION {[1..k -> S] : k \in 0..n}

\* the short id of the i-th commit of a walk
IdOf(i) == "xf" \o to_string(i)

\* the walk that yields the summaries `subjects`
WalkOf(subjects) == [i \in 1..Len(subjects) |-> <<IdOf(i), subjects[i]>>]

SubsetsUpTo(S, n) == {T \in SUBSET S : Cardinality(T) <= n}

NoEffects ==
    /\ prepended = <<>>
    /\ manifests = {}
    /\ releaseCommits = <<>>
    /\ tagCalls = <<>>
    /\ createdTags = {}
    /\ pushed = FALSE
    /\ exitCode = <<>>
    /\ abortedBy = ""

(***************************************************************************)
(* Spec: whole runs of main.                                               *)
(***************************************************************************)
RunTagNames == {"v1.0.0", "v0.9.9", "v01.2.3", "latest"}

RunSubjects == {"feat: a", "fix!: b", "docs: c", "wip stuff", "chore(release): v1.0.0"}

Init ==
    /\ inRepo \in BOOLEAN
    /\ hasHead \in BOOLEAN
    /\ hasOrigin \in BOOLEAN
    /\ argForce \in BOOLEAN
    /\ argPush \in BOOLEAN
    \* outside a repository there is nothing
    /\ ~inRepo => ~hasHead /\ ~hasOrigin
    /\ repoTags \in IF inRepo THEN SubsetsUpTo(RunTagNames, MaxRunTags) ELSE {{}}
    \* without HEAD or without a ranked tag there is no walk
    /\ walk \in IF hasHead /\ \E names \in tag_names(repoTags) : semver(tags(names)) # <<>>
                THEN {WalkOf(ss) : ss \in SeqsUpTo(RunSubjects, MaxRunCommits)}
                ELSE {<<>>}
    /\ pc = "discover"
    /\ all_tags = <<>>
    /\ commits = <<>>
    /\ changelog = ""
    /\ bumps = 0
    /\ new_tag = ""
    /\ NoEffects

Next ==
    \/ Discover
    \/ ReadTags
    \/ InitialTag
    \/ GetCommits
    \/ MakeChangelog
    \/ CheckEmpty
    \/ SelectBump
    \/ Bump
    \/ PrependChangelog
    \/ WriteManifests
    \/ CommitChanges
    \/ TagRelease
    \/ Push

Spec == Init /\ [][Next]_vars

(***************************************************************************)
(* A run inside a repository with HEAD whose only tag is v1.0.0, stopped   *)
(* at a position of main: the start of the specifications below.           *)
(***************************************************************************)
InsideRun ==
    /\ inRepo = TRUE
    /\ hasHead = TRUE
    /\ hasOrigin = TRUE
    /\ argPush = FALSE
    /\ NoEffects

(***************************************************************************)
(* SpecRank: tags and semver on the tag sets of a repository.              *)
(***************************************************************************)
RankTagNames ==
    {"v1.2.3", "1.2.3", "v0.9.10", "v0.10.0", "v10.0.0", "v2.0.0-rc1",
     "v01.2.3", "v1.2.03", "latest", "v1.2"}

InitRank ==
    /\ InsideRun
    /\ argForce = FALSE
    /\ repoTags \in SubsetsUpTo(RankTagNames, MaxTags)
    /\ walk = <<>>
    /\ pc = "tags"
    /\ all_tags = <<>>
    /\ commits = <<>>
    /\ changelog = ""
    /\ bumps = 0
    /\ new_tag = ""

NextRank == ReadTags

SpecRank == InitRank /\ [][NextRank]_vars

(***************************************************************************)
(* SpecSelect: the bump decision on the walks of a repository.             *)
(***************************************************************************)
SelectSubjects ==
    {"fix!: a", "feat!: a", "feat: a", "featuring a fix", "chore: a", "fix: a",
     "docs: a", "docs", "refactor: a", "wip stuff", "revert: a"}

InitSelect ==
    /\ InsideRun
    /\ argForce \in BOOLEAN
    /\ repoTags = {"v1.0.0"}
    /\ walk \in {WalkOf(ss) : ss \in SeqsUpTo(SelectSubjects, MaxSelectCommits)}
    /\ pc = "check_empty"
    /\ all_tags \in {semver(tags(names)) : names \in tag_names(repoTags)}
    /\ commits = walk
    /\ changelog = make_changelog(commits)
    /\ bumps = 0
    /\ new_tag = ""

NextSelect == CheckEmpty \/ SelectBump

SpecSelect == InitSelect /\ [][NextSelect]_vars

(***************************************************************************)
(* SpecBump: bump on the levels and the versions of the latest tag.        *)
(***************************************************************************)
BumpVersions == (0..MaxVer) \cup {9, 99}

\* a walk that decides the level
WalkForLevel(level) ==
    CASE level = MAJOR_BUMP -> WalkOf(<<"feat!: a">>)
      [] level = MINOR_BUMP -> WalkOf(<<"feat: a">>)
      [] level = PATCH_BUMP -> WalkOf(<<"fix: a">>)
      [] OTHER -> WalkOf(<<"wip stuff">>)

InitBump ==
    /\ InsideRun
    /\ argForce = FALSE
    /\ \E major \in BumpVersions, minor \in BumpVersions, patch \in BumpVersions :
          repoTags = {"v" \o to_string(major) \o "." \o to_string(minor)
                          \o "." \o to_string(patch)}
    /\ bumps \in {0, PATCH_BUMP, MINOR_BUMP, MAJOR_BUMP}
    /\ walk = WalkForLevel(bumps)
    /\ pc = "bump"
    /\ all_tags \in {semver(tags(names)) : names \in tag_names(repoTags)}
    /\ commits = walk
    /\ changelog = make_changelog(commits)
    /\ new_tag = ""

NextBump == Bump

SpecBump == InitBump /\ [][NextBump]_vars

(***************************************************************************)
(* SpecRender: make_changelog on the walks of a repository.                *)
(***************************************************************************)
RenderSubjects ==
    {"feat(foo): bar", "fix: some", "chore: some", "docs(foo): bar",
     "feat!: drop", "fix!(api): y", "refactor:  tidy  ", "revert: z",
     "chore(release): v1.2.3", "chore(release): a (b): c",
     "wip stuff", "feat(a+b): c"}

InitRender ==
    /\ InsideRun
    /\ argForce = FALSE
    /\ repoTags = {"v1.0.0"}
    /\ walk \in {WalkOf(ss) : ss \in SeqsUpTo(RenderSubjects, MaxRenderCommits)}
    /\ pc = "changelog"
    /\ all_tags \in {semver(tags(names)) : names \in tag_names(repoTags)}
    /\ commits = walk
    /\ changelog = ""
    /\ bumps = 0
    /\ new_tag = ""

NextRender == MakeChangelog

SpecRender == InitRender /\ [][NextRender]_vars

(***************************************************************************)
(* Properties of the bump decision (SpecSelect).                           *)
(***************************************************************************)
Subject(c) == c[2]

\* the prefixes the loop of main.rs:132-151 tests
BumpPrefixes == {"fix!", "feat!", "feat", "chore", "fix", "docs", "refactor"}

StartsWithAny(s, prefixes) == \E q \in prefixes : starts_with(s, q)

\* the decision has been taken for a walk that is not empty
Decided == pc = "bump" /\ commits # <<>>

\* the commits that alone decide a level
Deciding == {i \in 1..Len(commits) : bump_loop(<<commits[i]>>, 0) # 0}

\* C1: the level is the one the first deciding commit of the walk gives alone,
\* and it is the level of the walk cut after that commit: no commit that
\* follows it, a later fix! included, changes the level.
C1_FirstMatchWins ==
    Decided /\ Deciding # {} =>
        LET k == CHOOSE i \in Deciding : \A j \in Deciding : i <= j
        IN /\ bumps = bump_loop(<<commits[k]>>, 0)
           /\ bumps = bump_loop(SubSeq(commits, 1, k), 0)

C1_Witness ==
    /\ Decided
    /\ Len(commits) >= 2
    /\ Subject(commits[1]) = "feat: a"
    /\ Subject(commits[2]) = "fix!: a"
    /\ bumps = MINOR_BUMP

\* C2, as claimed: when every summary starts with docs or with none of fix!,
\* feat!, feat, chore, fix, refactor, no level is selected.
C2_DocsNeverBumps ==
    (/\ Decided
     /\ \A i \in 1..Len(commits) :
           \/ starts_with(Subject(commits[i]), "docs")
           \/ ~StartsWithAny(Subject(commits[i]), BumpPrefixes \ {"docs"}))
    => bumps = 0

\* C2, amended: docs is one of the patch prefixes.  When the first summary
\* that starts with one of the seven prefixes starts with docs, the level is
\* patch; the level is none exactly when no summary starts with any of the
\* seven prefixes.
C2_DocsBumpsPatch ==
    Decided =>
        LET hits == {i \in 1..Len(commits) :
                        StartsWithAny(Subject(commits[i]), BumpPrefixes)}
        IN /\ (hits = {}) = (bumps = 0)
           /\ hits # {} =>
                 LET k == CHOOSE i \in hits : \A j \in hits : i <= j
                 IN starts_with(Subject(commits[k]), "docs") => bumps = PATCH_BUMP

C2_Witness ==
    /\ Decided
    /\ Len(commits) >= 2
    /\ Subject(commits[1]) = "wip stuff"
    /\ Subject(commits[2]) = "docs: a"
    /\ bumps = PATCH_BUMP

\* C3: for the first summary that starts with a prefix of the loop (docs is
\* one, see C2), fix! or feat! gives major, otherwise feat gives minor,
\* otherwise chore, fix or refactor gives patch; the summaries before it,
\* which start with no prefix, are passed over.
C3_PrefixPrecedence ==
    Decided =>
        LET hits == {i \in 1..Len(commits) :
                        StartsWithAny(Subject(commits[i]), BumpPrefixes)}
        IN IF hits = {} THEN bumps = 0
           ELSE LET k == CHOOSE i \in hits : \A j \in hits : i <= j
                    s == Subject(commits[k])
                    bang == starts_with(s, "fix!") \/ starts_with(s, "feat!")
                    feat == starts_with(s, "feat")
                IN /\ bang => bumps = MAJOR_BUMP
                   /\ ~bang /\ feat => bumps = MINOR_BUMP
                   /\ ~bang /\ ~feat /\ StartsWithAny(s, {"chore", "fix", "refactor"})
                         => bumps = PATCH_BUMP

C3_Witness ==
    /\ Decided
    /\ Len(commits) >= 2
    /\ Subject(commits[1]) = "wip stuff"
    /\ Subject(commits[2]) = "featuring a fix"
    /\ bumps = MINOR_BUMP

(***************************************************************************)
(* Properties of bump (SpecBump).                                          *)
(***************************************************************************)
VersionText(major, minor, patch) ==
    "v" \o to_string(major) \o "." \o to_string(minor) \o "." \o to_string(patch)

\* C4: the new tag is v{major+1}.0.0 for major, v{major}.{minor+1}.0 for
\* minor, v{major}.{minor}.{patch+1} for patch and the empty text for none,
\* with the examples of the tests and of the specification.
C4_BumpFormat ==
    /\ pc = "prepend" =>
          LET v == all_tags[1].ver
          IN /\ bumps = MAJOR_BUMP => new_tag = VersionText(v[1] + 1, 0, 0)
             /\ bumps = MINOR_BUMP => new_tag = VersionText(v[1], v[2] + 1, 0)
             /\ bumps = PATCH_BUMP => new_tag = VersionText(v[1], v[2], v[3] + 1)
             /\ bumps = 0 => new_tag = ""
             /\ new_tag # "" => /\ SEMVER_RX_is_match(new_tag)
                                /\ SemverAt(new_tag, 2)[4] = Len(new_tag) + 1
    /\ bump(PATCH_BUMP, 1, 0, 0) = "v1.0.1"
    /\ bump(MINOR_BUMP, 1, 0, 0) = "v1.1.0"
    /\ bump(MAJOR_BUMP, 1, 0, 0) = "v2.0.0"
    /\ bump(PATCH_BUMP, 1, 0, 99) = "v1.0.100"
    /\ bump(MINOR_BUMP, 1, 99, 1) = "v1.100.0"
    /\ bump(MAJOR_BUMP, 99, 99, 99) = "v100.0.0"
    /\ bump(0, 1, 0, 0) = ""

C4_Witness ==
    /\ pc = "prepend"
    /\ all_tags[1].ver = <<99, 99, 99>>
    /\ bumps = MAJOR_BUMP
    /\ new_tag = "v100.0.0"

(***************************************************************************)
(* Properties of whole runs (Spec).                                        *)
(***************************************************************************)
\* C5, as claimed: no empty name is handed to tag, and a run whose walk is
\* not empty and decides no level writes no changelog section, creates no
\* release commit and hands no name to tag.
C5_NoEmptyTagName ==
    /\ \A i \in 1..Len(tagCalls) : tagCalls[i] # ""
    /\ (pc \notin {"discover", "tags", "initial_tag", "get_commits", "changelog",
                   "check_empty", "select"}
        /\ commits # <<>> /\ bumps = 0)
       => prepended = <<>> /\ releaseCommits = <<>> /\ tagCalls = <<>>

(***************************************************************************)
(* Properties of make_changelog (SpecRender).                              *)
(***************************************************************************)
Rendered == pc = "check_empty"

\* the priority of a summary: feat!, feat, fix!, fix, refactor, docs, chore,
\* then all others
Priority(s) ==
    IF starts_with(s, "feat!") THEN 1
    ELSE IF starts_with(s, "feat") THEN 2
    ELSE IF starts_with(s, "fix!") THEN 3
    ELSE IF starts_with(s, "fix") THEN 4
    ELSE IF starts_with(s, "refactor") THEN 5
    ELSE IF starts_with(s, "docs") THEN 6
    ELSE IF starts_with(s, "chore") THEN 7
    ELSE 8

Classified(c) == conventional_rx_captures(Subject(c))

IsRelease(caps) ==
    /\ caps.matched
    /\ caps.type = "chore"
    /\ caps.hasNote
    /\ caps.note = "release"

IsReleaseCommit(c) == IsRelease(Classified(c))

\* the commits of a walk with their classification and their priority
Candidates(cs) ==
    [i \in 1..Len(cs) |->
        [id |-> cs[i][1], caps |-> Classified(cs[i]), priority |-> Priority(Subject(cs[i]))]]

\* the commits of the changelog: those of the grammar, the release commits
\* left out
Listed(e) == e.caps.matched /\ ~IsRelease(e.caps)

\* the listed commits by priority, in the order of the walk within a priority
RECURSIVE ByPriority(_, _)
ByPriority(es, n) ==
    IF n > 8 THEN <<>>
    ELSE SelectSeq(es, LAMBDA e : Listed(e) /\ e.priority = n) \o ByPriority(es, n + 1)

Label(type) ==
    CASE type = "feat" -> "Features"
      [] type = "fix" -> "Bug Fixes"
      [] type = "docs" -> "Documentation"
      [] type = "refactor" -> "Code Refactoring"
      [] type = "chore" -> "Chores"
      [] type = "revert" -> "Reverts"

\* the text of the i-th listed commit: the heading of its group when it is
\* the first of a run of its type, after a blank line when a group precedes
EntryAt(es, i) ==
    LET e == es[i].caps
        first == i = 1 \/ es[i - 1].caps.type # e.type
    IN (IF first /\ i > 1 THEN "\n" ELSE "")
       \o (IF first THEN "### " \o Label(e.type) \o "\n" ELSE "")
       \o "- " \o (IF e.hasNote THEN "**" \o e.note \o ":** " ELSE "")
       \o trim(e.subject) \o " (" \o es[i].id \o ")\n"

RECURSIVE EntriesUpTo(_, _)
EntriesUpTo(es, i) ==
    IF i = 0 THEN "" ELSE EntriesUpTo(es, i - 1) \o EntryAt(es, i)

ExpectedChangelog(cs) ==
    LET es == ByPriority(Candidates(cs), 1) IN EntriesUpTo(es, Len(es))

\* C6: the changelog is the text of the commits of the grammar without the
\* release commits, stably ordered by priority, each run of a type under its
\* heading, a blank line between groups, each entry with its note, its
\* trimmed subject and its id; it is empty when no commit is listed.
C6_RenderOutput ==
    Rendered =>
        /\ changelog = ExpectedChangelog(commits)
        /\ (\A i \in 1..Len(commits) :
                ~Classified(commits[i]).matched \/ IsReleaseCommit(commits[i]))
              => changelog = ""

C6_Witness ==
    /\ Rendered
    /\ Len(commits) = 3
    /\ Subject(commits[1]) = "chore: some"
    /\ Subject(commits[2]) = "fix!(api): y"
    /\ Subject(commits[3]) = "chore(release): a (b): c"
    /\ changelog = "### Bug Fixes\n- **api:** y (xf2)\n\n### Chores\n- some (xf1)\n"
                   \o "- **release): a (b:** c (xf3)\n"

\* text contains part
Contains(text, part) ==
    \E i \in 1..(Len(text) + 1 - Len(part)) : SubSeq(text, i, i + Len(part) - 1) = part

WithoutReleaseCommits(cs) == SelectSeq(cs, LAMBDA c : ~IsReleaseCommit(c))

\* C7: the changelog of a walk is the changelog of the walk without its
\* release commits (type chore, note release), and no entry carries the id
\* of a release commit; a walk of release commits alone has an empty
\* changelog, without heading.
C7_ReleaseCommitSuppressed ==
    Rendered =>
        /\ changelog = make_changelog(WithoutReleaseCommits(commits))
        /\ \A i \in 1..Len(commits) :
              IsReleaseCommit(commits[i])
                  => ~Contains(changelog, "(" \o commits[i][1] \o ")")
        /\ (\A i \in 1..Len(commits) : IsReleaseCommit(commits[i])) => changelog = ""

C7_Witness ==
    /\ Rendered
    /\ Len(commits) = 3
    /\ Subject(commits[1]) = "feat(foo): bar"
    /\ Subject(commits[2]) = "chore(release): v1.2.3"
    /\ Subject(commits[3]) = "fix: some"
    /\ changelog = "### Features\n- **foo:** bar (xf1)\n\n### Bug Fixes\n- some (xf3)\n"

(***************************************************************************)
(* Properties of the tag ranking (SpecRank).                               *)
(***************************************************************************)
Ranked == pc \in {"initial_tag", "get_commits"}

\* the tags of the repository the version pattern matches
Matching == {t \in repoTags : SEMVER_RX_is_match(t)}

VersionOf(t) ==
    LET caps == SEMVER_RX_captures(t)
    IN <<parse_usize(caps.major), parse_usize(caps.minor), parse_usize(caps.patch)>>

RankedTags == {all_tags[i].tag : i \in 1..Len(all_tags)}

\* C8: the ranking has at most 2 entries, in descending order of version;
\* they are tags of the set that match the pattern, with their versions, no
\* tag twice, and no matching tag left out is greater than one ranked.
C8_RankTopTwo ==
    Ranked =>
        /\ Len(all_tags) <= 2
        /\ Len(all_tags) = IF Cardinality(Matching) < 2 THEN Cardinality(Matching) ELSE 2
        /\ \A i \in 1..Len(all_tags) :
              /\ all_tags[i].tag \in Matching
              /\ all_tags[i].ver = VersionOf(all_tags[i].tag)
        /\ \A i \in 1..Len(all_tags) : \A j \in (i + 1)..Len(all_tags) :
              /\ ~VerLess(all_tags[i].ver, all_tags[j].ver)
              /\ all_tags[i].tag # all_tags[j].tag
        /\ \A t \in Matching \ RankedTags : \A i \in 1..Len(all_tags) :
              ~VerLess(all_tags[i].ver, VersionOf(t))
        /\ \A t \in repoTags \ Matching : t \notin RankedTags

C8_Witness ==
    /\ Ranked
    /\ repoTags = {"v0.9.10", "v0.10.0", "v10.0.0", "latest"}
    /\ Len(all_tags) = 2
    /\ all_tags[1] = [tag |-> "v10.0.0", ver |-> <<10, 0, 0>>]
    /\ all_tags[2] = [tag |-> "v0.10.0", ver |-> <<0, 10, 0>>]

\* a number of the tag, next to a dot, that is written with a leading zero
HasLeadingZeroComponent(t) ==
    \E i \in 1..(Len(t) - 1) :
        /\ Ch(t, i) = "0"
        /\ i = 1 \/ ~IsDigit(Ch(t, i - 1))
        /\ IsDigit(Ch(t, i + 1))
        /\ \/ i > 1 /\ Ch(t, i - 1) = "."
           \/ DigitsEnd(t, i) <= Len(t) /\ Ch(t, DigitsEnd(t, i)) = "."

\* C9, as claimed: a tag whose version is written with a leading zero in a
\* component has no match and is not ranked.
C9_NoLeadingZeros ==
    Ranked => \A t \in repoTags : HasLeadingZeroComponent(t) => t \notin RankedTags

(***************************************************************************)
(* Properties of the aborts of whole runs (Spec).                          *)
(***************************************************************************)
NothingCommitted ==
    /\ prepended = <<>>
    /\ manifests = {}
    /\ releaseCommits = <<>>
    /\ createdTags = {}

\* C10, as claimed: a run that aborts because it is outside a repository,
\* because HEAD is missing, or because the remote origin is missing when
\* the push was asked for, has written nothing.
C10_AbortLeavesNothing ==
    (pc = "exit" /\ abortedBy \in {"not a repository", "no HEAD", "no origin"})
        => NothingCommitted

\* C10, amended: a run that aborts because it is outside a repository or
\* because HEAD is missing has written nothing; a run that aborts because
\* origin is missing has prepended its section to CHANGELOG.md, created the
\* release commit and created the tag before, and exits with code 1.
C10_AbortBeforeOrAfterRelease ==
    pc = "exit" =>
        /\ abortedBy \in {"not a repository", "no HEAD"}
              => NothingCommitted /\ exitCode = <<1>>
        /\ abortedBy = "no origin"
              => /\ Len(prepended) = 1
                 /\ Len(releaseCommits) = 1
                 /\ createdTags = {new_tag}
                 /\ new_tag # ""
                 /\ ~pushed
                 /\ exitCode = <<1>>

C10_Witness ==
    /\ pc = "exit"
    /\ abortedBy = "no origin"
    /\ argPush
    /\ createdTags = {"v1.1.0"}
    /\ Len(prepended) = 1

(***************************************************************************)
(* Properties of the empty commit range (Spec).                            *)
(***************************************************************************)
\* the causes of an exit before the commit range was looked at
EarlyAborts == {"current_dir", "not a repository", "tags", "no HEAD", "revwalk"}

\* the run found a latest tag, read the range up to HEAD, found it empty and
\* has made the check of main.rs:105
EmptyRangeChecked ==
    /\ all_tags # <<>>
    /\ walk = <<>>
    /\ commits = <<>>
    /\ \/ pc \in {"select", "bump", "prepend", "manifests", "commit", "tag", "push"}
       \/ pc = "exit" /\ abortedBy \notin EarlyAborts

\* the tag of a patch bump of the latest tag
PatchOfLatest ==
    LET ver == all_tags[1].ver
    IN "v" \o to_string(ver[1]) \o "." \o to_string(ver[2]) \o "." \o to_string(ver[3] + 1)

\* C11: when the range between the latest tag and HEAD is empty, a run with
\* the force flag goes on with exactly the patch bit set, its new tag is
\* v{major}.{minor}.{patch+1} of the latest tag's triple and no other tag is
\* asked for or created; a run without the flag exits with code 1 and has
\* written no changelog, no manifest, no commit and no tag.
C11_EmptyRange ==
    EmptyRangeChecked =>
        IF argForce
        THEN /\ bumps = PATCH_BUMP
             /\ abortedBy # "no commits"
             /\ pc \notin {"select", "bump"} => new_tag = PatchOfLatest
             /\ \A i \in 1..Len(tagCalls) : tagCalls[i] = PatchOfLatest
             /\ createdTags \subseteq {PatchOfLatest}
        ELSE /\ pc = "exit"
             /\ abortedBy = "no commits"
             /\ exitCode = <<1>>
             /\ new_tag = ""
             /\ NothingCommitted
             /\ tagCalls = <<>>

C11_Witness ==
    /\ EmptyRangeChecked
    /\ argForce
    /\ all_tags[1].tag = "v01.2.3"
    /\ createdTags = {"v1.2.4"}
    /\ pc = "exit"
    /\ exitCode = <<0>>

(***************************************************************************)
(* Properties of rank under ties (SpecRank).                               *)
(***************************************************************************)
\* two tags of the repository resolve to the same version
HasTie ==
    \E t \in Matching, u \in Matching : t # u /\ VersionOf(t) = VersionOf(u)

\* C12: for a tag set in which two or more tags resolve to the same version,
\* the ranked sequence (the tags kept and their order) is the same for every
\* order in which the repository may enumerate the tag names.
C12_RankDeterministic ==
    (Ranked /\ HasTie) =>
        \A names \in tag_names(repoTags) : semver(tags(names)) = all_tags

C12_Witness ==
    /\ Ranked
    /\ {"1.2.3", "v1.2.3", "v01.2.3"} \subseteq repoTags
    /\ Len(all_tags) = 2
    /\ all_tags[1].tag = "1.2.3"
    /\ all_tags[2].tag = "v01.2.3"

(***************************************************************************)
(* Properties of the versions released by whole runs (Spec).               *)
(***************************************************************************)
\* the run ranked a latest tag and created the tag of its bump
ReleasedByBump ==
    /\ all_tags # <<>>
    /\ createdTags # {}

\* C13: the tag that a run creates from a bump level of patch, minor or
\* major matches the tag version pattern, and its triple is strictly greater
\* than the triple of every matching tag that was there before the run; in
\* the tags that the run leaves when it has created the tag, the new tag
\* ranks first, above the latest tag of the run, however a later run
\* enumerates them.
C13_VersionsIncrease ==
    ReleasedByBump =>
        /\ bumps \in {PATCH_BUMP, MINOR_BUMP, MAJOR_BUMP}
        /\ createdTags = {new_tag}
        /\ SEMVER_RX_is_match(new_tag)
        /\ \A u \in Matching : VerLess(VersionOf(u), VersionOf(new_tag))
        /\ pc = "push" =>
              \A names \in tag_names(repoTags \cup createdTags) :
                  LET after == semver(tags(names))
                  IN /\ after[1].tag = new_tag
                     /\ VerLess(all_tags[1].ver, after[1].ver)

C13_Witness ==
    /\ ReleasedByBump
    /\ pc = "push"
    /\ repoTags = {"v0.9.9", "v01.2.3"}
    /\ bumps = MINOR_BUMP
    /\ createdTags = {"v1.3.0"}

(***************************************************************************)
(* Properties of the headings of the changelog (SpecRender).               *)
(***************************************************************************)
Headings ==
    {"### Features", "### Bug Fixes", "### Code Refactoring", "### Documentation",
     "### Chores", "### Reverts"}

\* the positions of the text where a line holding just `heading` starts
HeadingStarts(text, heading) ==
    {i \in 1..Len(text) :
        /\ i = 1 \/ Ch(text, i - 1) = "\n"
        /\ i + Len(heading) <= Len(text)
        /\ SubSeq(text, i, i + Len(heading)) = heading \o "\n"}

\* C14: in the changelog of any commit list each of the six headings stands
\* on at most one line, and the line after a heading is an entry line; so
\* also for revert commits, which sort with the unrecognized ones, and for
\* feat!/feat and fix!/fix commits, which sort under different keys.
C14_HeadingsOnceWithEntry ==
    Rendered =>
        \A heading \in Headings :
            LET starts == HeadingStarts(changelog, heading)
            IN /\ Cardinality(starts) <= 1
               /\ \A i \in starts :
                     LET next == i + Len(heading) + 1
                     IN /\ next + 1 <= Len(changelog)
                        /\ SubSeq(changelog, next, next + 1) = "- "

C14_Witness ==
    /\ Rendered
    /\ commits = WalkOf(<<"feat(foo): bar", "fix!(api): y", "feat!: drop">>)
    /\ Cardinality(HeadingStarts(changelog, "### Features")) = 1
    /\ changelog = "### Features\n- drop (xf3)\n- **foo:** bar (xf1)\n\n"
                        \o "### Bug Fixes\n- **api:** y (xf2)\n"

=============================================================================
